---- MODULE Spec2Model ----
(***************************************************************************)
(* A model of task_analyzer.py: the per-file inspector (process_file,      *)
(* get_file_category, check_permissions, handle_os_error), the size ranker *)
(* (quick_sort) and the traversal engine (traverse_directory_mp), which    *)
(* maps process_file over the enumerated files in a pool of worker         *)
(* processes and merges the collected results in the parent.               *)
(*                                                                         *)
(* Python strings are sequences of one-character strings, so that          *)
(* os.path.splitext, str.lower, oct() and int(s, 8) are computed and not   *)
(* assumed.                                                                *)
(***************************************************************************)
EXTENDS Integers, Sequences, FiniteSets, Bags, TLC

(***************************************************************************)
(* Bounds of the model.                                                    *)
(***************************************************************************)
\* at most this many files are enumerated by one scan
MaxFiles == 2
\* the size of the pool, cpu_count() on the machine
NumWorkers == 2
\* thresholds range over 0..MaxThreshold
MaxThreshold == 1
\* at most this many direct calls of get_file_category between scans
MaxDirectCalls == 1
\* quick_sort is applied to every list of at most this many pairs
MaxLen == 3
\* sizes of the pairs handed to quick_sort range over 0..MaxSortSize
MaxSortSize == 2
\* get_file_category is applied to every name of at most this many characters
MaxNameLen == 4

(***************************************************************************)
(* Strings.                                                                *)
(***************************************************************************)
Max(S) == CHOOSE x \in S : \A y \in S : y <= x

Range(s) == {s[i] : i \in DOMAIN s}

\* the number of positions of s holding e
Count(s, e) == Cardinality({i \in DOMAIN s : s[i] = e})

UpperToLower ==
    ("A" :> "a") @@ ("B" :> "b") @@ ("C" :> "c") @@ ("D" :> "d") @@
    ("E" :> "e") @@ ("F" :> "f") @@ ("G" :> "g") @@ ("H" :> "h") @@
    ("I" :> "i") @@ ("J" :> "j") @@ ("K" :> "k") @@ ("L" :> "l") @@
    ("M" :> "m") @@ ("N" :> "n") @@ ("O" :> "o") @@ ("P" :> "p") @@
    ("Q" :> "q") @@ ("R" :> "r") @@ ("S" :> "s") @@ ("T" :> "t") @@
    ("U" :> "u") @@ ("V" :> "v") @@ ("W" :> "w") @@ ("X" :> "x") @@
    ("Y" :> "y") @@ ("Z" :> "z")

\* str.lower()
Lower(s) ==
    [i \in DOMAIN s |-> IF s[i] \in DOMAIN UpperToLower THEN UpperToLower[s[i]] ELSE s[i]]

\* str.rfind(ch) + 1: the last position of ch in p, 0 when there is none
RFind(p, ch) ==
    IF \E i \in DOMAIN p : p[i] = ch
    THEN Max({i \in DOMAIN p : p[i] = ch})
    ELSE 0

\* the second component of os.path.splitext(p): the text from the last dot
\* of the last path component, unless only dots precede it in the component
SplitExt(p) ==
    LET sepIndex == RFind(p, "/")
        dotIndex == RFind(p, ".")
    IN  IF /\ dotIndex > sepIndex
           /\ \E j \in (sepIndex + 1)..(dotIndex - 1) : p[j] # "."
        THEN SubSeq(p, dotIndex, Len(p))
        ELSE <<>>

OctDigit == <<"0", "1", "2", "3", "4", "5", "6", "7">>

RECURSIVE OctDigits(_)
OctDigits(n) ==
    IF n < 8 THEN <<OctDigit[n + 1]>>
    ELSE OctDigits(n \div 8) \o <<OctDigit[(n % 8) + 1]>>

\* oct(n) for n >= 0: "0o" and the octal digits, most significant first
Oct(n) == <<"0", "o">> \o OctDigits(n)

DigitValue(c) == (CHOOSE d \in 1..8 : OctDigit[d] = c) - 1

RECURSIVE IntDigits(_)
IntDigits(s) ==
    IF s = <<>> THEN 0
    ELSE 8 * IntDigits(SubSeq(s, 1, Len(s) - 1)) + DigitValue(s[Len(s)])

\* int(s, 8) of a string with the "0o" prefix, which int accepts in base 8
IntBase8(s) == IntDigits(SubSeq(s, 3, Len(s)))

(***************************************************************************)
(* Module-level tables of task_analyzer.py.                                *)
(***************************************************************************)
FILE_CATEGORIES ==
    [text |-> {<<".", "t", "x", "t">>, <<".", "l", "o", "g">>, <<".", "m", "d">>,
               <<".", "c", "s", "v">>},
     image |-> {<<".", "j", "p", "g">>, <<".", "j", "p", "e", "g">>,
                <<".", "p", "n", "g">>, <<".", "g", "i", "f">>,
                <<".", "b", "m", "p">>, <<".", "s", "v", "g">>},
     executable |-> {<<".", "s", "h">>, <<".", "e", "x", "e">>,
                     <<".", "b", "i", "n">>, <<".", "r", "u", "n">>},
     video |-> {<<".", "m", "p", "4">>, <<".", "m", "k", "v">>,
                <<".", "a", "v", "i">>, <<".", "m", "o", "v">>},
     audio |-> {<<".", "m", "p", "3">>, <<".", "w", "a", "v">>,
                <<".", "o", "g", "g">>, <<".", "f", "l", "a", "c">>},
     archive |-> {<<".", "z", "i", "p">>, <<".", "t", "a", "r">>, <<".", "g", "z">>,
                  <<".", "b", "z", "2">>, <<".", "7", "z">>}]

\* 0o755, 0o644, 0o700, 0o744
NORMAL_PERMISSIONS == {493, 420, 448, 484}

\* the mask 0o777 applied to st_mode
PermissionMask == 511

\* Python's None, which traverse_directory_mp compares the size with
None == -1

\* errno values
ENOENT == 2
EACCES == 13

(***************************************************************************)
(* handle_os_error: the message printed for an OSError.                    *)
(***************************************************************************)
error_messages ==
    (2 :> "File or directory does not exist") @@
    (13 :> "Permission denied for file") @@
    (9 :> "Bad file number for file") @@
    (21 :> "Trying to open a directory as a file") @@
    (20 :> "Not a directory") @@
    (25 :> "Not a terminal device") @@
    (3 :> "No such process while accessing") @@
    (5 :> "I/O error while accessing file")

handle_os_error(errno, file_path) ==
    [message |-> IF errno \in DOMAIN error_messages
                 THEN error_messages[errno]
                 ELSE "Unexpected error",
     errno |-> IF errno \in DOMAIN error_messages THEN 0 ELSE errno,
     file_path |-> file_path]

(***************************************************************************)
(* quick_sort: pairs <<path, size>> by size, descending.                   *)
(***************************************************************************)
\* quick_sort with < for <=: the elements of the pivot's size are dropped
RECURSIVE quick_sort_drop(_)
quick_sort_drop(files) ==
    IF Len(files) <= 1 THEN files
    ELSE LET pivot == files[1]
             smaller == SelectSeq(Tail(files), LAMBDA x : x[2] < pivot[2])
             larger == SelectSeq(Tail(files), LAMBDA x : x[2] > pivot[2])
         IN  quick_sort_drop(larger) \o <<pivot>> \o quick_sort_drop(smaller)

RECURSIVE quick_sort(_)
quick_sort(files) ==
    IF Len(files) <= 1 THEN files
    ELSE LET pivot == files[1]
             smaller == SelectSeq(Tail(files), LAMBDA x : x[2] <= pivot[2])
             larger == SelectSeq(Tail(files), LAMBDA x : x[2] > pivot[2])
         IN  quick_sort(larger) \o <<pivot>> \o quick_sort(smaller)

(***************************************************************************)
(* The file system under the scanned root, in the order os.walk lists it.  *)
(* st_mode carries the file-type bits above the permission bits: 0o100644, *)
(* 0o100777, 0o104755 (setuid), 0o100666.                                  *)
(***************************************************************************)
FileSystem ==
    << [path |-> <<"a", ".", "t", "x", "t">>, size |-> 1, mode |-> 33188],
       [path |-> <<"b", ".", "J", "P", "G">>, size |-> 2, mode |-> 33279],
       [path |-> <<"c", ".", "x", "y", "z">>, size |-> 0, mode |-> 35309],
       [path |-> <<"e", ".", "l", "o", "g">>, size |-> 2, mode |-> 33206] >>

\* the entries of FileSystem at the positions S, in os.walk's order
Listing(S) ==
    [k \in 1..Cardinality(S) |->
        FileSystem[CHOOSE i \in S : Cardinality({j \in S : j < i}) = k - 1]]

\* what os.walk can enumerate: any part of the tree, at most MaxFiles files
Directories ==
    {Listing(S) : S \in {T \in SUBSET DOMAIN FileSystem : Cardinality(T) <= MaxFiles}}

\* What happens to a file while it is inspected: at = 0, every os.stat of it
\* succeeds; at = k, the k-th os.stat of process_file on it raises OSError
\* errno (1: os.path.getsize, 2: os.stat in process_file, 3: os.stat in
\* check_permissions).  A file that cannot be read fails at the first stat; a
\* file that vanishes fails from any of the three on.
Fates ==
    {[at |-> 0, errno |-> 0], [at |-> 1, errno |-> EACCES]}
        \cup {[at |-> k, errno |-> ENOENT] : k \in 1..3}

Workers == 1..NumWorkers

Thresholds == 0..MaxThreshold

(***************************************************************************)
(* defaultdict: a missing key is created by the first access.              *)
(***************************************************************************)
EmptyDict == <<>>

\* d[key].append(v) on a defaultdict(list)
DictAppend(d, key, v) ==
    IF key \in DOMAIN d
    THEN [d EXCEPT ![key] = Append(@, v)]
    ELSE d @@ (key :> <<v>>)

\* d[key] += n on a defaultdict(int)
DictAdd(d, key, n) ==
    IF key \in DOMAIN d
    THEN [d EXCEPT ![key] = @ + n]
    ELSE d @@ (key :> n)

(***************************************************************************)
(* The per-file inspector.                                                 *)
(***************************************************************************)
\* the order in which FILE_CATEGORIES.items() yields the categories
CategoryOrder == <<"text", "image", "executable", "video", "audio", "archive">>

\* get_file_category comparing the extension as written, without lower()
get_file_category_cased(filename, file_path, unknown) ==
    LET ext == SplitExt(filename)
        hits == {k \in DOMAIN CategoryOrder : ext \in FILE_CATEGORIES[CategoryOrder[k]]}
    IN  IF hits # {}
        THEN [category |-> CategoryOrder[CHOOSE k \in hits : \A j \in hits : k <= j],
              unknown_ext |-> unknown]
        ELSE [category |-> "other", unknown_ext |-> DictAppend(unknown, ext, file_path)]

\* get_file_category on the table unknown of the calling process: the
\* category returned and the table afterwards
get_file_category(filename, file_path, unknown) ==
    LET ext == SplitExt(filename)
        hits == {k \in DOMAIN CategoryOrder :
                    Lower(ext) \in FILE_CATEGORIES[CategoryOrder[k]]}
    IN  IF hits # {}
        THEN [category |-> CategoryOrder[CHOOSE k \in hits : \A j \in hits : k <= j],
              unknown_ext |-> unknown]
        ELSE [category |-> "other",
              unknown_ext |-> DictAppend(unknown, Lower(ext), file_path)]

\* check_permissions on file f with fate ft: the list returned and what is
\* printed
check_permissions(f, ft) ==
    IF ft.at = 3
    THEN [unusual_permissions |-> <<>>,
          printed |-> <<handle_os_error(ft.errno, f.path)>>]
    ELSE LET file_permissions == Oct(f.mode % (PermissionMask + 1))
         IN  [unusual_permissions |->
                  IF IntBase8(file_permissions) \notin NORMAL_PERMISSIONS
                  THEN <<(<<f.path, file_permissions>>)>>
                  ELSE <<>>,
              printed |-> <<>>]

\* the tuple process_file returns from its except branch
ErrorTuple(file_path) ==
    [file_path |-> file_path, size |-> 0, category |-> "unknown",
     permissions |-> <<>>, unusual_perms |-> <<>>]

\* process_file on file f with fate ft, in a process whose table is unknown:
\* the tuple returned, the process's table afterwards, and what is printed
process_file(f, ft, unknown) ==
    IF ft.at = 1
    THEN [ret |-> ErrorTuple(f.path), unknown_ext |-> unknown,
          printed |-> <<handle_os_error(ft.errno, f.path)>>]
    ELSE LET cat == get_file_category(f.path, f.path, unknown)
         IN  IF ft.at = 2
             THEN [ret |-> ErrorTuple(f.path), unknown_ext |-> cat.unknown_ext,
                   printed |-> <<handle_os_error(ft.errno, f.path)>>]
             ELSE LET chk == check_permissions(f, ft)
                  IN  [ret |-> [file_path |-> f.path,
                                size |-> f.size,
                                category |-> cat.category,
                                permissions |-> Oct(f.mode % (PermissionMask + 1)),
                                unusual_perms |-> chk.unusual_permissions],
                       unknown_ext |-> cat.unknown_ext,
                       printed |-> chk.printed]

(***************************************************************************)
(* State.                                                                  *)
(***************************************************************************)
VARIABLES
    phase,                \* where traverse_directory_mp stands: "idle" (not
                          \* called), "mapping" (in pool.map), "merging" (the loop
                          \* over results), "ranking" (the loop over the
                          \* categories), "returned"
    root_ok,              \* whether the directory passed is an existing directory
    files,                \* the paths os.walk enumerated, as FileSystem entries
    fate,                 \* fate[i]: what the stats of files[i] do in this scan
    size_threshold,
    pool_size,            \* the number of worker processes of the pool, 0: no pool
    next_task,            \* the next position of files the pool hands out
    running,              \* running[w]: the position worker w inspects, 0: none
    results,              \* in pool.map: position -> tuple; afterwards the list
    worker_unknown_ext,   \* worker_unknown_ext[w]: unknown_ext in worker w
    unknown_ext,          \* the module-level unknown_ext of the parent process
    printed,              \* the bag of messages handle_os_error printed in the scan
    merged,               \* how many entries of results the merge loop has done
    categorized_files,
    total_sizes,
    unusual_permissions,
    large_files,
    direct_calls,         \* direct calls of get_file_category made so far
    sort_in,              \* the argument of a direct call of quick_sort
    sort_out,             \* what it returned
    sort_calls,           \* how many times quick_sort was applied to it
    call_filename,        \* the filename of a direct call of get_file_category
    call_before,          \* unknown_ext when it was called
    call_result           \* the category it returned, "" before the call

scan_vars ==
    <<phase, root_ok, files, fate, size_threshold, pool_size, next_task, running,
      results,
      worker_unknown_ext, unknown_ext, printed, merged, categorized_files,
      total_sizes, unusual_permissions, large_files, direct_calls>>

sort_vars == <<sort_in, sort_out, sort_calls>>

call_vars == <<call_filename, call_before, call_result>>

vars == <<scan_vars, sort_vars, call_vars>>

\* no direct call of get_file_category is being observed
NoCall ==
    /\ call_filename = <<>>
    /\ call_before = EmptyDict
    /\ call_result = ""

\* the local state of traverse_directory_mp when it is not running
NoScan ==
    /\ root_ok = TRUE
    /\ files = <<>>
    /\ fate = <<>>
    /\ size_threshold = 0
    /\ pool_size = 0
    /\ next_task = 1
    /\ running = [w \in Workers |-> 0]
    /\ results = EmptyDict
    /\ worker_unknown_ext = [w \in Workers |-> EmptyDict]
    /\ printed = EmptyBag
    /\ merged = 0
    /\ categorized_files = EmptyDict
    /\ total_sizes = EmptyDict
    /\ unusual_permissions = <<>>
    /\ large_files = <<>>

Init ==
    /\ phase = "idle"
    /\ NoScan
    /\ unknown_ext = EmptyDict
    /\ direct_calls = 0
    /\ sort_in = <<>>
    /\ sort_out = <<>>
    /\ sort_calls = 0
    /\ NoCall

(***************************************************************************)
(* The traversal engine.                                                   *)
(***************************************************************************)
\* traverse_directory_mp up to the dispatch: fresh accumulators, os.walk (which
\* lists nothing under a root that is no directory, and raises nothing), and
\* the pool of cpu_count() workers, which start with a copy of the parent's
\* module state (start method fork) or with the module freshly imported (spawn)
StartScan(ok, dir, threshold, fates) ==
    /\ phase = "idle"
    /\ phase' = "mapping"
    /\ root_ok' = ok
    /\ files' = IF ok THEN dir ELSE <<>>
    /\ fate' = IF ok THEN fates ELSE <<>>
    /\ size_threshold' = threshold
    /\ \E n \in 1..NumWorkers : pool_size' = n
    /\ next_task' = 1
    /\ running' = [w \in Workers |-> 0]
    /\ results' = EmptyDict
    /\ \E inherited \in {unknown_ext, EmptyDict} :
           worker_unknown_ext' = [w \in Workers |-> inherited]
    /\ printed' = EmptyBag
    /\ merged' = 0
    /\ categorized_files' = EmptyDict
    /\ total_sizes' = EmptyDict
    /\ unusual_permissions' = <<>>
    /\ large_files' = <<>>
    /\ UNCHANGED <<unknown_ext, direct_calls, sort_vars, call_vars>>

\* the __main__ loop: get_valid_input asks again until os.path.isdir holds of
\* the directory, then traverse_directory_mp is called with it
MainIteration ==
    /\ phase = "idle"
    /\ \E dir \in Directories, threshold \in Thresholds :
           \E fates \in [DOMAIN dir -> Fates] :
               StartScan(TRUE, dir, threshold, fates)

\* traverse_directory_mp called by another caller, with any directory
DirectScan ==
    /\ phase = "idle"
    /\ \E ok \in BOOLEAN, dir \in Directories, threshold \in Thresholds :
           \E fates \in [DOMAIN dir -> Fates] :
               /\ ok \/ dir = <<>>
               /\ StartScan(ok, dir, threshold, fates)

\* every process is a worker of the pool
InPoolAny(w, size) == TRUE

\* w is one of the processes Pool(processes=size) started
InPool(w, size) == w <= size

\* an idle worker takes the next task of pool.map
TakeTask(w) ==
    /\ phase = "mapping"
    /\ InPool(w, pool_size)
    /\ running[w] = 0
    /\ next_task <= Len(files)
    /\ running' = [running EXCEPT ![w] = next_task]
    /\ next_task' = next_task + 1
    /\ UNCHANGED <<phase, root_ok, files, fate, size_threshold, pool_size, results,
                   worker_unknown_ext, unknown_ext, printed, merged,
                   categorized_files, total_sizes, unusual_permissions,
                   large_files, direct_calls, sort_vars, call_vars>>

\* a pool that keeps only the tuple that arrived last
StoreResultLast(res, i, r) == (i :> r)

\* pool.map keeps the tuple returned for position i
StoreResult(res, i, r) == res @@ (i :> r)

\* worker w has a task of pool.map in hand
Inspecting(w) == phase = "mapping" /\ running[w] # 0

\* worker w runs process_file on its task, in its own process, and hands the
\* tuple back to the parent
FinishTask(w) ==
    /\ Inspecting(w)
    /\ LET i == running[w]
           out == process_file(files[i], fate[i], worker_unknown_ext[w])
       IN  /\ results' = StoreResult(results, i, out.ret)
           /\ worker_unknown_ext' = [worker_unknown_ext EXCEPT ![w] = out.unknown_ext]
           /\ printed' = printed (+) SetToBag(Range(out.printed))
    /\ running' = [running EXCEPT ![w] = 0]
    /\ UNCHANGED <<phase, root_ok, files, fate, size_threshold, pool_size, next_task,
                   unknown_ext, merged, categorized_files, total_sizes,
                   unusual_permissions, large_files, direct_calls, sort_vars, call_vars>>

\* the list pool.map returns: the tuples kept, by position
CollectResults(res) ==
    [k \in 1..Cardinality(DOMAIN res) |->
        res[CHOOSE i \in DOMAIN res : Cardinality({j \in DOMAIN res : j < i}) = k - 1]]

\* a pool.map that returns as soon as every task is handed out
PoolMapReturnEarly ==
    /\ phase = "mapping"
    /\ next_task > Len(files)
    /\ phase' = "merging"
    /\ results' = CollectResults(results)
    /\ worker_unknown_ext' = [w \in Workers |-> EmptyDict]
    /\ UNCHANGED <<root_ok, files, fate, size_threshold, pool_size, next_task,
                   running, unknown_ext, printed, merged, categorized_files,
                   total_sizes, unusual_permissions, large_files, direct_calls,
                   sort_vars, call_vars>>

\* pool.map returns when every task is done; leaving the with block ends the
\* workers, and their module state with them
PoolMapReturn ==
    /\ phase = "mapping"
    /\ next_task > Len(files)
    /\ \A w \in Workers : running[w] = 0
    /\ phase' = "merging"
    /\ results' = CollectResults(results)
    /\ worker_unknown_ext' = [w \in Workers |-> EmptyDict]
    /\ UNCHANGED <<root_ok, files, fate, size_threshold, pool_size, next_task, running,
                   unknown_ext, printed, merged, categorized_files, total_sizes,
                   unusual_permissions, large_files, direct_calls, sort_vars, call_vars>>

\* the comparison with >= for >
IsLargeOrEqual(size, threshold) == size >= threshold

\* size > size_threshold
IsLarge(size, threshold) == size > threshold

\* a loop body that appends to the category list and leaves the total alone
MergeListOnly(acc, r, threshold) ==
    [acc EXCEPT !.categorized_files =
                    DictAppend(@, r.category, <<r.file_path, r.size>>),
                !.total_sizes = DictAdd(@, r.category, 0)]

\* one iteration of the loop over results
Merge(acc, r, threshold) ==
    IF r.size # None
    THEN [categorized_files |->
              DictAppend(acc.categorized_files, r.category, <<r.file_path, r.size>>),
          total_sizes |-> DictAdd(acc.total_sizes, r.category, r.size),
          large_files |->
              IF IsLarge(r.size, threshold)
              THEN Append(acc.large_files, <<r.file_path, r.size>>)
              ELSE acc.large_files,
          unusual_permissions |-> acc.unusual_permissions \o r.unusual_perms]
    ELSE acc

EmptyAcc ==
    [categorized_files |-> EmptyDict, total_sizes |-> EmptyDict,
     large_files |-> <<>>, unusual_permissions |-> <<>>]

MergeStep ==
    /\ phase = "merging"
    /\ merged < Len(results)
    /\ LET acc == Merge([categorized_files |-> categorized_files,
                         total_sizes |-> total_sizes,
                         large_files |-> large_files,
                         unusual_permissions |-> unusual_permissions],
                        results[merged + 1], size_threshold)
       IN  /\ categorized_files' = acc.categorized_files
           /\ total_sizes' = acc.total_sizes
           /\ large_files' = acc.large_files
           /\ unusual_permissions' = acc.unusual_permissions
    /\ merged' = merged + 1
    /\ UNCHANGED <<phase, root_ok, files, fate, size_threshold, pool_size, next_task, running,
                   results, worker_unknown_ext, unknown_ext, printed,
                   direct_calls, sort_vars, call_vars>>

MergeDone ==
    /\ phase = "merging"
    /\ merged = Len(results)
    /\ phase' = "ranking"
    /\ UNCHANGED <<root_ok, files, fate, size_threshold, pool_size, next_task, running,
                   results, worker_unknown_ext, unknown_ext, printed, merged,
                   categorized_files, total_sizes, unusual_permissions,
                   large_files, direct_calls, sort_vars, call_vars>>

\* the loop that sorts every category's list, and the return
RankAndReturn ==
    /\ phase = "ranking"
    /\ categorized_files' =
           [c \in DOMAIN categorized_files |-> quick_sort(categorized_files[c])]
    /\ phase' = "returned"
    /\ UNCHANGED <<root_ok, files, fate, size_threshold, pool_size, next_task, running,
                   results, worker_unknown_ext, unknown_ext, printed, merged,
                   total_sizes, unusual_permissions, large_files, direct_calls,
                   sort_vars, call_vars>>

\* the caller is done with the tuple returned; the locals of the call are gone
Discard ==
    /\ phase = "returned"
    /\ phase' = "idle"
    /\ root_ok' = TRUE
    /\ files' = <<>>
    /\ fate' = <<>>
    /\ size_threshold' = 0
    /\ pool_size' = 0
    /\ next_task' = 1
    /\ running' = [w \in Workers |-> 0]
    /\ results' = EmptyDict
    /\ worker_unknown_ext' = [w \in Workers |-> EmptyDict]
    /\ printed' = EmptyBag
    /\ merged' = 0
    /\ categorized_files' = EmptyDict
    /\ total_sizes' = EmptyDict
    /\ unusual_permissions' = <<>>
    /\ large_files' = <<>>
    /\ UNCHANGED <<unknown_ext, direct_calls, sort_vars, call_vars>>

\* get_file_category called in the parent process, outside a scan
DirectClassify ==
    /\ phase = "idle"
    /\ direct_calls < MaxDirectCalls
    /\ \E k \in DOMAIN FileSystem :
           unknown_ext' =
               get_file_category(FileSystem[k].path, FileSystem[k].path,
                                 unknown_ext).unknown_ext
    /\ direct_calls' = direct_calls + 1
    /\ UNCHANGED <<phase, root_ok, files, fate, size_threshold, pool_size, next_task, running,
                   results, worker_unknown_ext, printed, merged, categorized_files,
                   total_sizes, unusual_permissions, large_files, sort_vars, call_vars>>

Next ==
    \/ MainIteration
    \/ DirectScan
    \/ \E w \in Workers : TakeTask(w)
    \/ \E w \in Workers : FinishTask(w)
    \/ PoolMapReturn
    \/ MergeStep
    \/ MergeDone
    \/ RankAndReturn
    \/ Discard
    \/ DirectClassify

Spec == Init /\ [][Next]_vars

(***************************************************************************)
(* quick_sort on its own: every list of at most MaxLen pairs.              *)
(***************************************************************************)
SortPaths == {<<"a">>, <<"b">>}

SortPairs == SortPaths \X (0..MaxSortSize)

SortInputs == UNION {[1..n -> SortPairs] : n \in 0..MaxLen}

SortInit ==
    /\ phase = "idle"
    /\ NoScan
    /\ unknown_ext = EmptyDict
    /\ direct_calls = 0
    /\ sort_in \in SortInputs
    /\ sort_out = <<>>
    /\ sort_calls = 0
    /\ NoCall

\* quick_sort applied to the list
SortCall ==
    /\ sort_calls = 0
    /\ sort_out' = quick_sort(sort_in)
    /\ sort_calls' = 1
    /\ UNCHANGED <<sort_in, scan_vars, call_vars>>

\* quick_sort applied to its own result
SortAgain ==
    /\ sort_calls = 1
    /\ sort_out' = quick_sort(sort_out)
    /\ sort_calls' = 2
    /\ UNCHANGED <<sort_in, scan_vars, call_vars>>

SortNext == SortCall \/ SortAgain

SortSpec == SortInit /\ [][SortNext]_vars

(***************************************************************************)
(* get_file_category on its own: every name of at most MaxNameLen          *)
(* characters, called in a process whose unknown_ext is empty or holds an  *)
(* earlier path.                                                           *)
(***************************************************************************)
NameChars == {".", "/", "m", "d", "M", "D"}

\* the names of files: "", "." and the like, made of "." and "/" alone, are none
Names ==
    {name \in UNION {[1..n -> NameChars] : n \in 1..MaxNameLen} :
        \E i \in DOMAIN name : name[i] \notin {".", "/"}}

\* the file_path passed with a filename: the name in a directory
CallPath(filename) == <<"r", "/">> \o filename

StartTables ==
    {EmptyDict, (<<>> :> << <<"o">> >>), (<<".", "m">> :> << <<"o">> >>)}

ClassifyInit ==
    /\ phase = "idle"
    /\ NoScan
    /\ unknown_ext \in StartTables
    /\ direct_calls = 0
    /\ sort_in = <<>>
    /\ sort_out = <<>>
    /\ sort_calls = 0
    /\ call_filename \in Names
    /\ call_before = EmptyDict
    /\ call_result = ""

\* get_file_category(filename, file_path) called in the process
ClassifyCall ==
    /\ call_result = ""
    /\ LET out == get_file_category(call_filename, CallPath(call_filename),
                                    unknown_ext)
       IN  /\ call_result' = out.category
           /\ unknown_ext' = out.unknown_ext
    /\ call_before' = unknown_ext
    /\ UNCHANGED <<phase, root_ok, files, fate, size_threshold, pool_size, next_task, running,
                   results, worker_unknown_ext, printed, merged, categorized_files,
                   total_sizes, unusual_permissions, large_files, direct_calls,
                   sort_vars, call_filename>>

ClassifyNext == ClassifyCall

ClassifySpec == ClassifyInit /\ [][ClassifyNext]_vars

(***************************************************************************)
(* Vocabulary of the properties.                                           *)
(***************************************************************************)
\* the paths of a list of pairs <<path, ...>>
PathsOf(list) == {list[j][1] : j \in DOMAIN list}

\* how many entries of a list of pairs carry the path
Occurrences(list, path) == Cardinality({j \in DOMAIN list : list[j][1] = path})

RECURSIVE SumSizes(_)
SumSizes(list) ==
    IF list = <<>> THEN 0 ELSE list[1][2] + SumSizes(Tail(list))

\* process_file took its except branch on files[i]
Raised(i) == fate[i].at \in {1, 2}

\* process_file returned the tuple of a successful inspection of files[i]
Inspected(i) == fate[i].at \in {0, 3}

\* the extension of the path is in no list of FILE_CATEGORIES
UnknownExtension(path) ==
    \A c \in DOMAIN FILE_CATEGORIES : Lower(SplitExt(path)) \notin FILE_CATEGORIES[c]

\* how many entries of all the category lists carry the path
CategoryOccurrences(path) ==
    Cardinality(UNION {{<<c, j>> : j \in {k \in DOMAIN categorized_files[c] :
                                            categorized_files[c][k][1] = path}} :
                       c \in DOMAIN categorized_files})

RECURSIVE SumCopies(_, _)
SumCopies(S, B) ==
    IF S = {} THEN 0
    ELSE LET m == CHOOSE x \in S : TRUE
         IN  CopiesIn(m, B) + SumCopies(S \ {m}, B)

\* how many messages handle_os_error printed about the path in this scan
ErrorEvents(path) ==
    SumCopies({m \in BagToSet(printed) : m.file_path = path}, printed)

\* the scan of the same files by one process, one file after the other:
\* process_file on files[k], then the loop body on its tuple
RECURSIVE SequentialScan(_, _, _, _, _)
SequentialScan(fs, fts, threshold, unknown, k) ==
    IF k = 0 THEN [acc |-> EmptyAcc, unknown_ext |-> unknown]
    ELSE LET before == SequentialScan(fs, fts, threshold, unknown, k - 1)
             out == process_file(fs[k], fts[k], before.unknown_ext)
         IN  [acc |-> Merge(before.acc, out.ret, threshold),
              unknown_ext |-> out.unknown_ext]

(***************************************************************************)
(* C1.  After traverse_directory_mp returns, a file whose inspection       *)
(* raised an OS error is in no category list, has created no category      *)
(* entry, and is in neither the unusual-permission list nor the large-file *)
(* list.                                                                   *)
(***************************************************************************)
C1_FailedFileInNoAccumulator ==
    phase = "returned" =>
        \A i \in DOMAIN files :
            Raised(i) =>
                /\ CategoryOccurrences(files[i].path) = 0
                /\ \A c \in (DOMAIN categorized_files) \cup (DOMAIN total_sizes) :
                       \E j \in DOMAIN files :
                           Inspected(j) /\ results[j].category = c
                /\ files[i].path \notin PathsOf(unusual_permissions)
                /\ files[i].path \notin PathsOf(large_files)

(***************************************************************************)
(* C2.  After a scan, every successfully inspected file whose lowercased   *)
(* extension is in no category is categorized "other" and its path is in   *)
(* the unknown-extension table the caller reads, under that extension.     *)
(***************************************************************************)
C2_UnknownExtensionRecorded ==
    phase = "returned" =>
        \A i \in DOMAIN files :
            (Inspected(i) /\ UnknownExtension(files[i].path)) =>
                /\ results[i].category = "other"
                /\ Lower(SplitExt(files[i].path)) \in DOMAIN unknown_ext
                /\ files[i].path \in
                       Range(unknown_ext[Lower(SplitExt(files[i].path))])

(***************************************************************************)
(* C3.  At every moment the categories with a total are the categories     *)
(* with a list, every category's total is the sum of the sizes in its      *)
(* list, and every merged tuple is in exactly one category list, once.     *)
(***************************************************************************)
C3_TotalsMatchLists ==
    /\ DOMAIN total_sizes = DOMAIN categorized_files
    /\ \A c \in DOMAIN categorized_files :
           total_sizes[c] = SumSizes(categorized_files[c])
    /\ phase \in {"merging", "ranking", "returned"} =>
           \A k \in 1..Len(results) :
               CategoryOccurrences(results[k].file_path) = (IF k <= merged THEN 1 ELSE 0)

C3_Witness ==
    /\ phase = "returned"
    /\ \E c \in DOMAIN categorized_files :
           Len(categorized_files[c]) >= 2 /\ total_sizes[c] >= 3
    /\ Cardinality(DOMAIN categorized_files) >= 1

(***************************************************************************)
(* C4.  After a scan with any threshold, an inspected file whose size is   *)
(* strictly greater than the threshold is in the large-file list exactly   *)
(* once, with its size; every other file, a file of exactly the threshold  *)
(* size included, is not in it.                                            *)
(***************************************************************************)
C4_LargeFilesExactlyAboveThreshold ==
    phase = "returned" =>
        \A i \in DOMAIN files :
            IF Inspected(i) /\ files[i].size > size_threshold
            THEN /\ Occurrences(large_files, files[i].path) = 1
                 /\ <<files[i].path, files[i].size>> \in Range(large_files)
            ELSE Occurrences(large_files, files[i].path) = 0

C4_Witness ==
    /\ phase = "returned"
    /\ \E i, j \in DOMAIN files :
           /\ Inspected(i) /\ files[i].size = size_threshold
           /\ Inspected(j) /\ files[j].size > size_threshold
           /\ Occurrences(large_files, files[j].path) = 1
           /\ Occurrences(large_files, files[i].path) = 0

C6_UnknownTableRunScoped ==
    phase = "returned" =>
        \A ext \in DOMAIN unknown_ext :
            \A path \in Range(unknown_ext[ext]) :
                \E i \in DOMAIN files : files[i].path = path

(***************************************************************************)
(* C7.  A scan whose root is not an existing directory does not return a   *)
(* result.                                                                 *)
(***************************************************************************)
C7_InvalidRootReturnsNothing ==
    ~root_ok => phase # "returned"

(***************************************************************************)
(* C8.  In a scan, one error event is printed for every file whose         *)
(* inspection met an OS error, whichever stat it was, and none for a file  *)
(* merged from the tuple of a successful inspection.                       *)
(***************************************************************************)
C8_OneErrorEventAndNeverBoth ==
    phase = "returned" =>
        \A i \in DOMAIN files :
            /\ fate[i].at # 0 => ErrorEvents(files[i].path) = 1
            /\ (\E c \in (DOMAIN categorized_files) \ {"unknown"} :
                    files[i].path \in PathsOf(categorized_files[c]))
                   => ErrorEvents(files[i].path) = 0

C10_UnusualExactlyWhenNotNormal ==
    phase = "returned" =>
        \A i \in DOMAIN files :
            (\E c \in (DOMAIN categorized_files) \ {"unknown"} :
                 files[i].path \in PathsOf(categorized_files[c]))
                => (files[i].path \in PathsOf(unusual_permissions)
                        <=> (files[i].mode % 512) \notin {493, 420, 448, 484})

(***************************************************************************)
(* C11 as stated.  get_file_category takes the text from the last "." of   *)
(* the name (empty when there is none), lowercases it, returns the         *)
(* category whose list holds it and leaves the table alone, and otherwise  *)
(* returns "other" and appends the path under the lowercased extension.    *)
(***************************************************************************)
\* the text from the last "." of the name, empty when there is none
TextFromLastDot(name) ==
    IF \E i \in DOMAIN name : name[i] = "."
    THEN SubSeq(name, Max({i \in DOMAIN name : name[i] = "."}), Len(name))
    ELSE <<>>

\* what a call with extension ext must have returned and recorded
ClassifiedBy(ext) ==
    LET low == Lower(ext)
        cats == {c \in DOMAIN FILE_CATEGORIES : low \in FILE_CATEGORIES[c]}
    IN  IF cats # {}
        THEN /\ Cardinality(cats) = 1
             /\ call_result \in cats
             /\ unknown_ext = call_before
        ELSE /\ call_result = "other"
             /\ low \in DOMAIN unknown_ext
             /\ unknown_ext[low] =
                    (IF low \in DOMAIN call_before THEN call_before[low] ELSE <<>>)
                        \o <<CallPath(call_filename)>>
             /\ \A k \in DOMAIN call_before :
                    k # low => (k \in DOMAIN unknown_ext /\ unknown_ext[k] = call_before[k])
             /\ DOMAIN unknown_ext = (DOMAIN call_before) \cup {low}

C11_ExtensionFromLastDot ==
    call_result # "" => ClassifiedBy(TextFromLastDot(call_filename))

(***************************************************************************)
(* C11 as amended.  The extension is the one os.path.splitext gives: the   *)
(* text from the last "." of the last path component, and empty when       *)
(* that component has no "." or has only "." before its last ".".          *)
(***************************************************************************)
ExtensionOfLastComponent(name) ==
    LET seps == {i \in DOMAIN name : name[i] = "/"}
        start == IF seps = {} THEN 1 ELSE Max(seps) + 1
        dots == {i \in start..Len(name) : name[i] = "."}
    IN  IF dots # {} /\ (\E j \in start..(Max(dots) - 1) : name[j] # ".")
        THEN SubSeq(name, Max(dots), Len(name))
        ELSE <<>>

C11_ExtensionOfLastComponent ==
    call_result # "" => ClassifiedBy(ExtensionOfLastComponent(call_filename))

\* a name that is nothing but a known extension in mixed case, classified in
\* a process whose table already holds a path under the empty extension
C11_Witness ==
    /\ call_filename = <<".", "M", "d">>
    /\ call_result = "other"
    /\ <<>> \in DOMAIN call_before
    /\ Len(unknown_ext[<<>>]) = Len(call_before[<<>>]) + 1

(***************************************************************************)
(* C12.  Completion barrier.  Nothing is merged while pool.map runs; once  *)
(* merging has begun every dispatched inspection has finished and handed   *)
(* back its tuple; once ranking has begun every tuple is merged and none   *)
(* is merged later; and when the scan has returned every category list is  *)
(* sorted by size, descending, and holds the pair of every inspection that *)
(* succeeded.                                                              *)
(***************************************************************************)
C12_CompletionBarrier ==
    /\ phase = "mapping" =>
           /\ merged = 0
           /\ DOMAIN categorized_files = {}
           /\ DOMAIN total_sizes = {}
           /\ large_files = <<>>
           /\ unusual_permissions = <<>>
    /\ phase \in {"merging", "ranking", "returned"} =>
           /\ \A w \in Workers : running[w] = 0
           /\ next_task = Len(files) + 1
           /\ DOMAIN results = DOMAIN files
           /\ \A i \in DOMAIN files : results[i].file_path = files[i].path
    /\ phase \in {"ranking", "returned"} => merged = Len(results)
    /\ phase = "returned" =>
           /\ \A c \in DOMAIN categorized_files :
                  \A j \in 1..(Len(categorized_files[c]) - 1) :
                      categorized_files[c][j][2] >= categorized_files[c][j + 1][2]
           /\ \A i \in DOMAIN files :
                  Inspected(i) =>
                      \E c \in DOMAIN categorized_files :
                          Count(categorized_files[c],
                                <<files[i].path, files[i].size>>) = 1

\* two inspected files of one category, which the ranking has reordered
C12_Witness ==
    /\ phase = "returned"
    /\ \E i, j \in DOMAIN files :
           /\ i < j
           /\ Inspected(i) /\ Inspected(j)
           /\ files[i].size < files[j].size
           /\ \E c \in DOMAIN categorized_files :
                  /\ Len(categorized_files[c]) >= 2
                  /\ categorized_files[c][1] = <<files[j].path, files[j].size>>
                  /\ categorized_files[c][2] = <<files[i].path, files[i].size>>

(***************************************************************************)
(* C13.  At every moment of a scan at most pool_size inspections are in    *)
(* progress, whatever the number of files, and the pool keeps its size;    *)
(* every enumerated file is inspected exactly once: until pool.map         *)
(* returns each position is either not handed out yet, or in progress in   *)
(* one worker, or done, and afterwards results holds one tuple per file;   *)
(* and the scan terminates: in every state of a scan that has not yet      *)
(* returned a step of the scan can be taken, and every step of the scan    *)
(* decreases ScanMeasure.                                                  *)
(***************************************************************************)
\* the number of inspections in progress
InProgress == Cardinality({w \in Workers : running[w] # 0})

\* a step of traverse_directory_mp or of its pool can be taken; a worker
\* that is inspecting a file can always finish, for FinishTask only assigns
ScanStepEnabled ==
    \/ \E w \in Workers : ENABLED TakeTask(w)
    \/ \E w \in Workers : Inspecting(w)
    \/ ENABLED PoolMapReturn
    \/ ENABLED MergeStep
    \/ ENABLED MergeDone
    \/ ENABLED RankAndReturn

\* what is left of a scan: a natural number, 0 once it has returned
ScanMeasure ==
    CASE phase = "mapping" ->
             3 + Len(files) + 2 * (Len(files) + 1 - next_task) + InProgress
      [] phase = "merging" -> 2 + (Len(results) - merged)
      [] phase = "ranking" -> 1
      [] OTHER -> 0

C13_Bounded ==
    /\ InProgress <= pool_size
    /\ phase # "idle" => pool_size \in 1..NumWorkers
    /\ phase = "mapping" =>
           \A i \in DOMAIN files :
               (IF i >= next_task THEN 1 ELSE 0)
                   + Cardinality({w \in Workers : running[w] = i})
                   + (IF i \in DOMAIN results THEN 1 ELSE 0) = 1
    /\ phase \in {"merging", "ranking", "returned"} =>
           /\ Len(results) = Len(files)
           /\ \A i \in DOMAIN files : results[i].file_path = files[i].path
    /\ phase \in {"mapping", "merging", "ranking"} => ScanStepEnabled
    /\ ScanMeasure >= 0

\* a step taken during a scan brings it nearer to its return
C13_Progress ==
    phase \in {"mapping", "merging", "ranking"} =>
        (ScanMeasure' < ScanMeasure /\ pool_size' = pool_size)

C13_BoundedInspectedOnceTerminates ==
    []C13_Bounded /\ [][C13_Progress]_vars

\* more files than workers: the pool is full and a file waits its turn
C13_Witness ==
    /\ phase = "mapping"
    /\ Len(files) > pool_size
    /\ InProgress = pool_size
    /\ next_task <= Len(files)
    /\ \E w \in Workers : ~ENABLED TakeTask(w)

====
